---- MODULE Spec2Model ----
(***************************************************************************)
(* Model of codeintel-dead-code-finder (src/main.py): a dispatcher that    *)
(* validates its arguments, runs flake8, pylint and pyre-check as child    *)
(* processes one after the other, and renders their captured output into   *)
(* one report written to a file or to standard output.                     *)
(*                                                                         *)
(* Text is modelled as a sequence of one-character strings, so that        *)
(* joining, upper-casing and concatenation are computed, not assumed.      *)
(* An optional value is a sequence of length 0 (None) or 1 (a value).      *)
(***************************************************************************)
EXTENDS Naturals, Sequences, FiniteSets

VARIABLES
    project_path,   \* args.project_path
    dependencies,   \* args.dependencies (a list of names)
    output_file,    \* args.output_file (optional)
    ignore,         \* args.ignore (a list of names)
    pc,             \* position of main()
    results,        \* the dict `results`, as its (key, value) items in insertion order
    output,         \* the local `output` of main()
    stdout,         \* what the run has written to standard output (None: nothing)
    written,        \* the output file as this run left it (None: never opened for writing)
    log,            \* the records handed to logging
    exit_status,    \* the process's exit status (None while running)
    children,       \* the child processes that are running
    temp_dir,       \* run_pyre's temporary directory: None, or the file inside (None or its text)
    invocations,    \* how often each runner has been called
    started,        \* every child process started, with what it could see
    finished        \* every child process that ended: its exit status and standard output

vars == <<project_path, dependencies, output_file, ignore, pc, results, output,
          stdout, written, log, exit_status, children, temp_dir, invocations,
          started, finished>>

args == <<project_path, dependencies, output_file, ignore>>

-----------------------------------------------------------------------------
(* Bounds of the model. *)

MaxDeps == 2      \* longest explicit --dependencies list
MaxIgnore == 2    \* longest --ignore list

-----------------------------------------------------------------------------
(* Text and optional values. *)

None == <<>>
Some(x) == <<x>>

Flake8Name == <<"f", "l", "a", "k", "e", "8">>
PylintName == <<"p", "y", "l", "i", "n", "t">>
PyreCheckName == <<"p", "y", "r", "e", "-", "c", "h", "e", "c", "k">>
PyreBinary == <<"p", "y", "r", "e">>
ExcludeFlag == <<"-", "-", "e", "x", "c", "l", "u", "d", "e">>
IgnoreFlag == <<"-", "-", "i", "g", "n", "o", "r", "e">>
CheckArg == <<"c", "h", "e", "c", "k">>
SourceDirFlag == <<"-", "-", "s", "o", "u", "r", "c", "e", "-", "d", "i", "r", "e", "c", "t", "o", "r", "y">>
ConfigFlag == <<"-", "-", "c", "o", "n", "f", "i", "g", "u", "r", "a", "t", "i", "o", "n">>
ConfigFileName == <<".", "p", "y", "r", "e", "_", "c", "o", "n", "f", "i", "g", "u", "r", "a", "t", "i", "o", "n", ".", "l", "o", "c", "a", "l">>
CfgHead == <<"{", "\n", " ", " ", "\"", "i", "g", "n", "o", "r", "e", "\"", ":", " ", "[">>
CfgMid == <<"]", ",", "\n", " ", " ", "\"", "t", "y", "p", "e", "s", "h", "e", "d", "\"", ":", " ", "n", "u", "l", "l", ",", "\n", " ", " ", "\"", "u", "s", "e", "_", "b", "u", "c", "k", "\"", ":", " ", "f", "a", "l", "s", "e", ",", "\n", " ", " ", "\"", "s", "o", "u", "r", "c", "e", "_", "d", "i", "r", "e", "c", "t", "o", "r", "i", "e", "s", "\"", ":", " ", "[", "\"">>
CfgTail == <<"\"", "]", "\n", "}">>
HeaderOpen == <<"-", "-", "-", " ">>
HeaderClose == <<" ", "-", "-", "-", "\n">>
LowerCase == <<"a", "b", "c", "d", "e", "f", "g", "h", "i", "j", "k", "l", "m", "n", "o", "p", "q", "r", "s", "t", "u", "v", "w", "x", "y", "z">>
UpperCase == <<"A", "B", "C", "D", "E", "F", "G", "H", "I", "J", "K", "L", "M", "N", "O", "P", "Q", "R", "S", "T", "U", "V", "W", "X", "Y", "Z">>

(* str.upper(): every lower-case letter becomes its capital, the rest stays. *)
UpperChar(c) ==
    IF \E i \in 1..Len(LowerCase) : LowerCase[i] = c
    THEN UpperCase[CHOOSE i \in 1..Len(LowerCase) : LowerCase[i] = c]
    ELSE c

Upper(s) == [i \in 1..Len(s) |-> UpperChar(s[i])]

(* Mutant: the separator follows every item, the last one too. *)
RECURSIVE JoinTrailing(_, _)
JoinTrailing(sep, items) ==
    IF Len(items) = 0 THEN <<>>
    ELSE items[1] \o sep \o JoinTrailing(sep, Tail(items))

(* sep.join(items): the separator goes between consecutive items only. *)
RECURSIVE Join(_, _)
Join(sep, items) ==
    IF Len(items) = 0 THEN <<>>
    ELSE IF Len(items) = 1 THEN items[1]
    ELSE items[1] \o sep \o Join(sep, Tail(items))

(* map(lambda x: '"' + x + '"', ignore) *)
Quoted(items) == [i \in 1..Len(items) |-> <<"\"">> \o items[i] \o <<"\"">>]

(* `x in a_list` *)
InList(x, list) == \E i \in 1..Len(list) : list[i] = x

(* Mutant: only the first name of the list selects a tool. *)
SelectedIfFirst(tool, deps) == deps[1] = tool

(* `"flake8" in dependencies`: whether main() runs the tool. *)
Selected(tool, deps) == InList(tool, deps)

(* Truth value of a list or string: non-empty. *)
Truthy(s) == Len(s) > 0

(* Truth value of an optional string: given and non-empty. *)
TruthyOpt(o) == o # None /\ Len(o[1]) > 0

-----------------------------------------------------------------------------
(* The command line and the file system the run sees. *)

SrcDir == <<"s", "r", "c">>          \* an existing directory
AFile == <<"f", ".", "p", "y">>      \* an existing regular file
Missing == <<"n", "o">>              \* no such path
Paths == {SrcDir, AFile, Missing}

ExistingDirs == {SrcDir}

(* Mutant: os.path.exists instead of os.path.isdir. *)
isdir_exists(path) == path \in {SrcDir, AFile}

(* os.path.isdir(path) *)
isdir(path) == path \in ExistingDirs

MypyName == <<"m", "y", "p", "y">>   \* a name outside the tool set
DepNames == {Flake8Name, PylintName, PyreCheckName, MypyName}

IgnoreNames == {<<"a">>, <<"b", "d">>}

OutPath == <<"o">>
OutputFiles == {None, Some(<<>>), Some(OutPath)}

SeqsFromTo(S, lo, hi) == UNION {[1..k -> S] : k \in lo..hi}

(* setup_argparse: the default of --dependencies. *)
DefaultDependencies == <<Flake8Name, PylintName, PyreCheckName>>

(* A list out of canonical order that names a tool twice. *)
ReorderedWithRepeat == <<PyreCheckName, Flake8Name, PyreCheckName>>

(* nargs="+" needs at least one name when the option is given. *)
DependencyLists ==
    {DefaultDependencies, ReorderedWithRepeat} \cup SeqsFromTo(DepNames, 1, MaxDeps)

IgnoreLists == SeqsFromTo(IgnoreNames, 0, MaxIgnore)

(* What a child process can print and how it can end. *)
StdoutTexts == {<<>>, <<"W", "1", "\n">>}
ExitCodes == {0, 1}

Tools == {Flake8Name, PylintName, PyreCheckName}

-----------------------------------------------------------------------------
(* Pure parts of the runners and of main(). *)

(* run_flake8: command = ["flake8", project_path] (+ ["--exclude", joined]) *)
Flake8Command(path, ign) ==
    IF Truthy(ign)
    THEN <<Flake8Name, path>> \o <<ExcludeFlag, Join(<<",">>, ign)>>
    ELSE <<Flake8Name, path>>

(* run_pylint: command = ["pylint", project_path] (+ ["--ignore", joined]) *)
PylintCommand(path, ign) ==
    IF Truthy(ign)
    THEN <<PylintName, path>> \o <<IgnoreFlag, Join(<<",">>, ign)>>
    ELSE <<PylintName, path>>

(* tempfile.TemporaryDirectory(): the one fresh name the model hands out. *)
TempDirName == <<"/", "t">>

(* os.path.join(temp_dir, ".pyre_configuration.local") *)
PyreConfigPath(dir) == dir \o <<"/">> \o ConfigFileName

(* The text run_pyre writes into its configuration file. *)
PyreConfigText(path, ign) ==
    CfgHead \o Join(<<",", " ">>, Quoted(ign)) \o CfgMid \o path \o CfgTail

(* run_pyre: command = ["pyre", "check", "--source-directory", ..., "--configuration", ...] *)
PyreCommand(path, ign) ==
    <<PyreBinary, CheckArg, SourceDirFlag, path, ConfigFlag, PyreConfigPath(TempDirName)>>

(* Mutant: an except clause returns an error text. *)
ExceptResultText == <<"E", "r", "r">>

(* The value a runner returns from either except clause. *)
ExceptResult == <<>>

(* Mutant: the output of a child that exited non-zero is dropped. *)
CompletedResultChecked(proc) == IF proc.code = 0 THEN proc.out ELSE <<>>

(* The value a runner returns after subprocess.run: result.stdout. *)
CompletedResult(proc) == proc.out

(* Mutant: the directory is left behind. *)
TempDirLeaked == temp_dir

(* temp_dir once the `with tempfile.TemporaryDirectory()` block is left. *)
TempDirOnExit == None

(* results[key] = value on an insertion-ordered dict. *)
DictSet(items, key, value) ==
    IF \E i \in 1..Len(items) : items[i][1] = key
    THEN [i \in 1..Len(items) |->
            IF items[i][1] = key THEN <<key, value>> ELSE items[i]]
    ELSE Append(items, <<key, value>>)

(* Mutant: a section without the blank line after the body. *)
SectionTextNoBlank(tool, result) ==
    HeaderOpen \o Upper(tool) \o HeaderClose \o result \o <<"\n">>

(* f"--- {tool.upper()} ---\n{result}\n\n" *)
SectionText(tool, result) ==
    HeaderOpen \o Upper(tool) \o HeaderClose \o result \o <<"\n", "\n">>

(* output = ""; for tool, result in results.items(): output += section *)
RECURSIVE Render(_)
Render(items) ==
    IF Len(items) = 0 THEN <<>>
    ELSE SectionText(items[1][1], items[1][2]) \o Render(Tail(items))

(* print(text): the text and the line end print appends. *)
PrintText(text) == text \o <<"\n">>

(* Mutant: the list of valid names misses pyre-check. *)
valid_dependencies_short == <<Flake8Name, PylintName>>

(* valid_dependencies = ["flake8", "pylint", "pyre-check"] *)
valid_dependencies == <<Flake8Name, PylintName, PyreCheckName>>

(* The first name the validation loop rejects. *)
FirstInvalid(deps) ==
    deps[CHOOSE i \in 1..Len(deps) :
            /\ ~InList(deps[i], valid_dependencies)
            /\ \A j \in 1..(i - 1) : InList(deps[j], valid_dependencies)]

-----------------------------------------------------------------------------
(* The state after argument parsing. *)

Init ==
    /\ project_path \in Paths
    /\ dependencies \in DependencyLists
    /\ output_file \in OutputFiles
    /\ ignore \in IgnoreLists
    /\ pc = "validate_path"
    /\ results = <<>>
    /\ output = <<>>
    /\ stdout = None
    /\ written = None
    /\ log = <<>>
    /\ exit_status = None
    /\ children = {}
    /\ temp_dir = None
    /\ invocations = [t \in Tools |-> 0]
    /\ started = <<>>
    /\ finished = <<>>

-----------------------------------------------------------------------------
(* main(): input validation. *)

(* if not os.path.isdir(project_path): log the error, sys.exit(1) *)
validate_path ==
    /\ pc = "validate_path"
    /\ IF isdir(project_path)
       THEN /\ pc' = "validate_deps"
            /\ UNCHANGED <<log, exit_status>>
       ELSE /\ log' = Append(log, <<"ERROR", "not a valid directory", project_path>>)
            /\ exit_status' = Some(1)
            /\ pc' = "exited"
    /\ UNCHANGED <<args, results, output, stdout, written, children, temp_dir,
                   invocations, started, finished>>

(* for dep in dependencies: if dep not in valid_dependencies: sys.exit(1) *)
validate_deps ==
    /\ pc = "validate_deps"
    /\ IF \E i \in 1..Len(dependencies) : ~InList(dependencies[i], valid_dependencies)
       THEN /\ log' = Append(log, <<"ERROR", "not a valid dependency",
                                    FirstInvalid(dependencies)>>)
            /\ exit_status' = Some(1)
            /\ pc' = "exited"
            /\ UNCHANGED results
       ELSE /\ results' = <<>>
            /\ pc' = "flake8"
            /\ UNCHANGED <<log, exit_status>>
    /\ UNCHANGED <<args, output, stdout, written, children, temp_dir,
                   invocations, started, finished>>

-----------------------------------------------------------------------------
(* The runners.  subprocess.run blocks: a runner that started its child is  *)
(* at its *_wait position until the child has ended.                       *)

Called(tool) == [invocations EXCEPT ![tool] = @ + 1]

Running(tool) == Append(log, <<"INFO", "Running", tool>>)

(* subprocess.run(command, ...) got the child started. *)
ChildStarted(tool, command, cwd, waitPc) ==
    /\ children' = children \cup {[tool |-> tool, argv |-> command, cwd |-> cwd]}
    /\ started' = Append(started, [tool |-> tool, argv |-> command, cwd |-> cwd,
                                   config |-> temp_dir])
    /\ pc' = waitPc
    /\ UNCHANGED <<results, finished>>

(* An except clause of a runner: log the error, return "", main stores it. *)
RunnerFailed(tool, tag, nextPc, entryLog) ==
    /\ log' = Append(entryLog, <<"ERROR", tag, tool>>)
    /\ results' = DictSet(results, tool, ExceptResult)
    /\ pc' = nextPc
    /\ UNCHANGED <<children, started, finished>>

(* The child ended, with any exit status (check=False): stdout is returned. *)
ChildEnded(tool, nextPc) ==
    \E proc \in children : \E code \in ExitCodes : \E out \in StdoutTexts :
        /\ proc.tool = tool
        /\ children' = children \ {proc}
        /\ finished' = Append(finished, [tool |-> tool, code |-> code, out |-> out])
        /\ results' = DictSet(results, tool,
                              CompletedResult([code |-> code, out |-> out]))
        /\ pc' = nextPc
        /\ UNCHANGED <<log, started>>

(* if "flake8" in dependencies: ... (not taken) *)
main_flake8_skip ==
    /\ pc = "flake8"
    /\ ~Selected(Flake8Name, dependencies)
    /\ pc' = "pylint"
    /\ UNCHANGED <<args, results, output, stdout, written, log, exit_status,
                   children, temp_dir, invocations, started, finished>>

run_flake8_launch ==
    /\ pc = "flake8"
    /\ Selected(Flake8Name, dependencies)
    /\ invocations' = Called(Flake8Name)
    /\ \/ /\ ChildStarted(Flake8Name, Flake8Command(project_path, ignore), None,
                          "flake8_wait")
          /\ log' = Running(Flake8Name)
       \/ RunnerFailed(Flake8Name, "not installed", "pylint", Running(Flake8Name))
       \/ RunnerFailed(Flake8Name, "error while running", "pylint", Running(Flake8Name))
    /\ UNCHANGED <<args, output, stdout, written, exit_status, temp_dir>>

run_flake8_return ==
    /\ pc = "flake8_wait"
    /\ ChildEnded(Flake8Name, "pylint")
    /\ UNCHANGED <<args, output, stdout, written, exit_status, temp_dir, invocations>>

(* if "pylint" in dependencies: ... (not taken) *)
main_pylint_skip ==
    /\ pc = "pylint"
    /\ ~Selected(PylintName, dependencies)
    /\ pc' = "pyre"
    /\ UNCHANGED <<args, results, output, stdout, written, log, exit_status,
                   children, temp_dir, invocations, started, finished>>

(* Mutant: pylint is started and not waited for. *)
run_pylint_nowait ==
    /\ pc = "pylint"
    /\ Selected(PylintName, dependencies)
    /\ invocations' = Called(PylintName)
    /\ children' = children \cup {[tool |-> PylintName,
                                    argv |-> PylintCommand(project_path, ignore),
                                    cwd |-> None]}
    /\ started' = Append(started, [tool |-> PylintName,
                                   argv |-> PylintCommand(project_path, ignore),
                                   cwd |-> None, config |-> temp_dir])
    /\ results' = DictSet(results, PylintName, <<>>)
    /\ log' = Running(PylintName)
    /\ pc' = "pyre"
    /\ UNCHANGED <<args, output, stdout, written, exit_status, temp_dir, finished>>

run_pylint_launch ==
    /\ pc = "pylint"
    /\ Selected(PylintName, dependencies)
    /\ invocations' = Called(PylintName)
    /\ \/ /\ ChildStarted(PylintName, PylintCommand(project_path, ignore), None,
                          "pylint_wait")
          /\ log' = Running(PylintName)
       \/ RunnerFailed(PylintName, "not installed", "pyre", Running(PylintName))
       \/ RunnerFailed(PylintName, "error while running", "pyre", Running(PylintName))
    /\ UNCHANGED <<args, output, stdout, written, exit_status, temp_dir>>

run_pylint_return ==
    /\ pc = "pylint_wait"
    /\ ChildEnded(PylintName, "pyre")
    /\ UNCHANGED <<args, output, stdout, written, exit_status, temp_dir, invocations>>

(* if "pyre-check" in dependencies: ... (not taken) *)
main_pyre_skip ==
    /\ pc = "pyre"
    /\ ~Selected(PyreCheckName, dependencies)
    /\ pc' = "aggregate"
    /\ UNCHANGED <<args, results, output, stdout, written, log, exit_status,
                   children, temp_dir, invocations, started, finished>>

(* with tempfile.TemporaryDirectory() as temp_dir: the directory is made, or not. *)
run_pyre_mkdtemp ==
    /\ pc = "pyre"
    /\ Selected(PyreCheckName, dependencies)
    /\ invocations' = Called(PyreCheckName)
    /\ \/ /\ temp_dir' = Some(None)
          /\ log' = Running(PyreCheckName)
          /\ pc' = "pyre_write"
          /\ UNCHANGED <<results, children, started, finished>>
       \/ /\ RunnerFailed(PyreCheckName, "error while running", "aggregate",
                          Running(PyreCheckName))
          /\ UNCHANGED temp_dir
    /\ UNCHANGED <<args, output, stdout, written, exit_status>>

(* with open(pyre_config_path, "w") as f: f.write(...) *)
run_pyre_write_config ==
    /\ pc = "pyre_write"
    /\ \/ /\ temp_dir' = Some(Some(PyreConfigText(project_path, ignore)))
          /\ pc' = "pyre_launch"
          /\ UNCHANGED <<log, results, children, started, finished>>
       \/ /\ RunnerFailed(PyreCheckName, "error while running", "aggregate", log)
          /\ temp_dir' = TempDirOnExit
    /\ UNCHANGED <<args, output, stdout, written, exit_status, invocations>>

run_pyre_launch ==
    /\ pc = "pyre_launch"
    /\ \/ /\ ChildStarted(PyreCheckName, PyreCommand(project_path, ignore),
                          Some(project_path), "pyre_wait")
          /\ UNCHANGED <<log, temp_dir>>
       \/ /\ RunnerFailed(PyreCheckName, "not installed", "aggregate", log)
          /\ temp_dir' = TempDirOnExit
       \/ /\ RunnerFailed(PyreCheckName, "error while running", "aggregate", log)
          /\ temp_dir' = TempDirOnExit
    /\ UNCHANGED <<args, output, stdout, written, exit_status, invocations>>

run_pyre_return ==
    /\ pc = "pyre_wait"
    /\ ChildEnded(PyreCheckName, "aggregate")
    /\ temp_dir' = TempDirOnExit
    /\ UNCHANGED <<args, output, stdout, written, exit_status, invocations>>

-----------------------------------------------------------------------------
(* main(): the report and its delivery. *)

main_aggregate ==
    /\ pc = "aggregate"
    /\ output' = Render(results)
    /\ pc' = "deliver"
    /\ UNCHANGED <<args, results, stdout, written, log, exit_status, children,
                   temp_dir, invocations, started, finished>>

(* Mutant: a failed write falls back to printing the report. *)
WriteFailedFallback(file) ==
    /\ written' = file
    /\ log' = Append(log, <<"ERROR", "Error writing to file", output_file[1]>>)
    /\ stdout' = Some(PrintText(output))

(* open(output_file, "w") or f.write(output) raised: the except clause logs. *)
WriteFailed(file) ==
    /\ written' = file
    /\ log' = Append(log, <<"ERROR", "Error writing to file", output_file[1]>>)
    /\ UNCHANGED stdout

main_deliver ==
    /\ pc = "deliver"
    /\ IF TruthyOpt(output_file)
       THEN \/ /\ written' = Some(output)
               /\ log' = Append(log, <<"INFO", "Results saved", output_file[1]>>)
               /\ UNCHANGED stdout
            \/ WriteFailed(written)        \* open() raised: the file is untouched
            \/ WriteFailed(Some(<<>>))     \* write() raised: the file was truncated
       ELSE /\ stdout' = Some(PrintText(output))
            /\ UNCHANGED <<written, log>>
    /\ pc' = "done"
    /\ exit_status' = Some(0)
    /\ UNCHANGED <<args, results, output, children, temp_dir, invocations,
                   started, finished>>

Next ==
    \/ validate_path
    \/ validate_deps
    \/ main_flake8_skip
    \/ run_flake8_launch
    \/ run_flake8_return
    \/ main_pylint_skip
    \/ run_pylint_launch
    \/ run_pylint_return
    \/ main_pyre_skip
    \/ run_pyre_mkdtemp
    \/ run_pyre_write_config
    \/ run_pyre_launch
    \/ run_pyre_return
    \/ main_aggregate
    \/ main_deliver

Spec == Init /\ [][Next]_vars

-----------------------------------------------------------------------------
(* Vocabulary of the properties, stated from the inputs and the observable  *)
(* effects of a run, not from the operators above.                         *)

Canonical == <<Flake8Name, PylintName, PyreCheckName>>

Requested == {dependencies[i] : i \in 1..Len(dependencies)}

PassesValidation == project_path = SrcDir /\ Requested \subseteq Tools

Rank(tool) == CHOOSE i \in 1..3 : Canonical[i] = tool

(* The selected tools, in canonical order. *)
RequestedInOrder ==
    (IF Flake8Name \in Requested THEN <<Flake8Name>> ELSE <<>>)
    \o (IF PylintName \in Requested THEN <<PylintName>> ELSE <<>>)
    \o (IF PyreCheckName \in Requested THEN <<PyreCheckName>> ELSE <<>>)

(* The header line of a tool's section, written out. *)
HeaderLine(tool) ==
    CASE tool = Flake8Name -> <<"-", "-", "-", " ", "F", "L", "A", "K", "E", "8", " ", "-", "-", "-", "\n">>
      [] tool = PylintName -> <<"-", "-", "-", " ", "P", "Y", "L", "I", "N", "T", " ", "-", "-", "-", "\n">>
      [] tool = PyreCheckName -> <<"-", "-", "-", " ", "P", "Y", "R", "E", "-", "C", "H", "E", "C", "K", " ", "-", "-", "-", "\n">>

(* Where a text occurs inside another. *)
FindAll(needle, text) ==
    {i \in 1..(Len(text) + 1 - Len(needle)) :
        /\ text[i] = needle[1]
        /\ text[i + Len(needle) - 1] = needle[Len(needle)]
        /\ SubSeq(text, i, i + Len(needle) - 1) = needle}

Reported == pc \in {"deliver", "done"}

AfterDispatch == pc \in {"aggregate", "deliver", "done"}

HasResult(tool) == \E i \in 1..Len(results) : results[i][1] = tool

ResultOf(tool) == results[CHOOSE i \in 1..Len(results) : results[i][1] = tool][2]

ErrorLogged(tool) ==
    \E i \in 1..Len(log) : log[i][1] = "ERROR" /\ log[i][3] = tool
                           /\ log[i][2] \in {"not installed", "error while running"}

LaunchFailed(tool) == \E i \in 1..Len(log) : log[i] = <<"ERROR", "not installed", tool>>

HasStarted(tool) == \E i \in 1..Len(started) : started[i].tool = tool

HasFinished(tool) == \E i \in 1..Len(finished) : finished[i].tool = tool

IsRunning(tool) == \E c \in children : c.tool = tool

-----------------------------------------------------------------------------
(* C1: in every run that passes validation, whatever the order and the      *)
(* repetitions of --dependencies, the report has exactly one section for    *)
(* each distinct requested tool and none for any other, the sections stand  *)
(* in the order flake8, pylint, pyre-check, and each requested tool's       *)
(* runner is called exactly once (never more, and never for a tool that was *)
(* not requested).                                                          *)
C1_OneSectionPerRequestedTool ==
    /\ \A t \in Tools :
          /\ invocations[t] <= 1
          /\ invocations[t] = 1 => t \in Requested
    /\ (PassesValidation /\ AfterDispatch) =>
          \A t \in Tools : invocations[t] = (IF t \in Requested THEN 1 ELSE 0)
    /\ Reported =>
          LET at == [t \in Tools |-> FindAll(HeaderLine(t), output)]
          IN /\ \A t \in Tools :
                   Cardinality(at[t]) = (IF t \in Requested THEN 1 ELSE 0)
             /\ Cardinality(FindAll(HeaderOpen, output)) = Cardinality(Requested)
             /\ \A t, u \in Requested :
                   Rank(t) < Rank(u) =>
                       \A i \in at[t] : \A j \in at[u] : i < j

(* A finished run whose list names pyre-check before flake8 and twice. *)
C1_Witness ==
    /\ pc = "done"
    /\ dependencies = <<PyreCheckName, Flake8Name, PyreCheckName>>
    /\ invocations[PyreCheckName] = 1
    /\ invocations[Flake8Name] = 1

(* C2: when project_path is not an existing directory, or some name of      *)
(* --dependencies is outside {flake8, pylint, pyre-check} (other names may  *)
(* be valid), the run ends with exit status 1 and in no state of it has a   *)
(* runner been called, a child been started, or anything been written to    *)
(* standard output or to the output file.                                   *)
C2_ValidationFailureRunsNothing ==
    ~PassesValidation =>
        /\ \A t \in Tools : invocations[t] = 0
        /\ started = <<>> /\ children = {} /\ temp_dir = None
        /\ stdout = None /\ written = None
        /\ pc \in {"validate_path", "validate_deps", "exited"}
        /\ exit_status = (IF pc = "exited" THEN Some(1) ELSE None)
        /\ pc # "exited" => ENABLED Next

(* A run that ended on an unknown name listed after a valid one. *)
C2_Witness ==
    /\ pc = "exited"
    /\ exit_status = Some(1)
    /\ project_path = SrcDir
    /\ dependencies = <<Flake8Name, MypyName>>
    /\ output_file = Some(OutPath)

(* What the child process of a tool printed, when it ran to its end. *)
FinishedOut(tool) ==
    finished[CHOOSE i \in 1..Len(finished) : finished[i].tool = tool].out

(* The report holds a section of this tool with exactly this body. *)
HasSection(tool, body) ==
    \E i \in FindAll(HeaderLine(tool), output) :
        LET b == i + Len(HeaderLine(tool))
            e == b + Len(body) + 2
        IN /\ e <= Len(output) + 1
           /\ SubSeq(output, b, e - 1) = body \o <<"\n", "\n">>
           /\ \/ e = Len(output) + 1
              \/ /\ e + 3 <= Len(output)
                 /\ SubSeq(output, e, e + 3) = HeaderOpen

WriteErrorLogged ==
    \E i \in 1..Len(log) : log[i][1] = "ERROR" /\ log[i][2] = "Error writing to file"

Saved == \E i \in 1..Len(log) : log[i][1] = "INFO" /\ log[i][2] = "Results saved"

(* An output file is given: the option is present and names a path. *)
OutputFileGiven == output_file # None /\ output_file[1] # <<>>

(* C3: when a selected tool cannot be launched (binary not found, process   *)
(* not started), its runner returns the empty string without a child having *)
(* run, the run goes on, every selected tool later in canonical order is    *)
(* still run with its output in its own section, the failed tool's section  *)
(* is in the report with an empty body, and the report is produced.         *)
C3_LaunchFailureIsIsolated ==
    \A t \in Tools :
        ErrorLogged(t) =>
            /\ t \in Requested /\ ~HasStarted(t)
            /\ HasResult(t) /\ ResultOf(t) = <<>>
            /\ pc # "exited" /\ exit_status # Some(1)
            /\ pc # "done" => ENABLED Next
            /\ AfterDispatch =>
                  \A u \in Requested :
                      Rank(u) > Rank(t) =>
                          /\ invocations[u] = 1 /\ HasResult(u)
                          /\ HasFinished(u) => ResultOf(u) = FinishedOut(u)
            /\ Reported =>
                  /\ HasSection(t, <<>>)
                  /\ \A u \in Requested :
                        (Rank(u) > Rank(t) /\ HasFinished(u)) =>
                            HasSection(u, FinishedOut(u))
            /\ pc = "done" =>
                  \/ stdout = Some(output \o <<"\n">>)
                  \/ written = Some(output)
                  \/ WriteErrorLogged

(* flake8 was not installed, pylint ran after it and printed a warning, and *)
(* the report went to the output file.                                      *)
C3_Witness ==
    /\ pc = "done"
    /\ LaunchFailed(Flake8Name)
    /\ HasFinished(PylintName)
    /\ ResultOf(PylintName) = <<"W", "1", "\n">>
    /\ written = Some(output)

(* The report the claims describe: for each selected tool in canonical      *)
(* order, its header line, what its child printed (nothing when it never    *)
(* ran), and a blank line.                                                  *)
ExpectedSection(tool) ==
    IF tool \in Requested
    THEN HeaderLine(tool)
         \o (IF HasFinished(tool) THEN FinishedOut(tool) ELSE <<>>)
         \o <<"\n", "\n">>
    ELSE <<>>

ExpectedReport ==
    ExpectedSection(Flake8Name) \o ExpectedSection(PylintName)
    \o ExpectedSection(PyreCheckName)

(* C4 as stated: both destinations receive exactly the concatenation of the *)
(* sections, with no character before, between or after them.               *)
C4_SameTextOnBothDestinations ==
    pc = "done" =>
        /\ stdout # None => stdout = Some(ExpectedReport)
        /\ Saved => written = Some(ExpectedReport)

(* C4: the output file receives exactly the concatenation, over the         *)
(* selected tools in canonical order, of '--- <TOOL> ---\n<output>\n\n';     *)
(* standard output receives that same text followed by one more line end.   *)
C4_FileExactStdoutPlusNewline ==
    pc = "done" =>
        /\ stdout # None => stdout = Some(ExpectedReport \o <<"\n">>)
        /\ Saved => written = Some(ExpectedReport)
        /\ ~OutputFileGiven => stdout # None

(* All three tools printed a warning and the report went to standard output. *)
C4_Witness ==
    /\ pc = "done"
    /\ stdout # None
    /\ \A t \in Tools : HasFinished(t) /\ FinishedOut(t) = <<"W", "1", "\n">>

(* C5: a run that passes validation ends with exit status 0 whatever        *)
(* happens to the tools or to the output file, and exit status 1 is only    *)
(* given for a project_path that is no directory or an unknown tool name.   *)
C5_ExitStatus ==
    /\ exit_status \in {None, Some(0), Some(1)}
    /\ exit_status = Some(1) => ~PassesValidation
    /\ PassesValidation =>
          /\ pc # "exited"
          /\ exit_status = (IF pc = "done" THEN Some(0) ELSE None)
          /\ pc # "done" => ENABLED Next

(* A finished run in which flake8 could not be launched, another tool ended *)
(* with a non-zero status and the output file could not be written.         *)
C5_Witness ==
    /\ pc = "done"
    /\ exit_status = Some(0)
    /\ LaunchFailed(Flake8Name)
    /\ \E i \in 1..Len(finished) : finished[i].code = 1
    /\ WriteErrorLogged

(* A text cut at every occurrence of a character. *)
RECURSIVE SplitAt(_, _)
SplitAt(text, c) ==
    IF \E i \in 1..Len(text) : text[i] = c
    THEN LET i == CHOOSE k \in 1..Len(text) :
                      text[k] = c /\ \A j \in 1..(k - 1) : text[j] # c
         IN <<SubSeq(text, 1, i - 1)>> \o SplitAt(SubSeq(text, i + 1, Len(text)), c)
    ELSE <<text>>

(* Where entry k of the --ignore list begins in the joined value, less one. *)
RECURSIVE EntryOffset(_)
EntryOffset(k) ==
    IF k = 1 THEN 0 ELSE EntryOffset(k - 1) + Len(ignore[k - 1]) + 1

(* v is the --ignore entries, in their order, with one comma between two    *)
(* neighbours and none in front or behind.                                  *)
IsCommaJoined(v) ==
    /\ Len(v) = EntryOffset(Len(ignore)) + Len(ignore[Len(ignore)])
    /\ \A k \in 1..Len(ignore) :
          /\ SubSeq(v, EntryOffset(k) + 1, EntryOffset(k) + Len(ignore[k])) = ignore[k]
          /\ k > 1 => v[EntryOffset(k)] = ","
    /\ SplitAt(v, ",") = ignore
    /\ Cardinality({i \in 1..Len(v) : v[i] = ","}) = Len(ignore) - 1
    /\ v[1] # "," /\ v[Len(v)] # ","

IgnoreEntries == {ignore[i] : i \in 1..Len(ignore)}

(* C6: the argument vector of flake8 and of pylint is [binary,              *)
(* project_path] for an empty ignore list and [binary, project_path, flag,  *)
(* v] for N >= 1 entries, with flag --exclude for flake8 and --ignore for   *)
(* pylint and v the N entries joined by single commas in the given order    *)
(* with no leading or trailing comma; the argument vector of pyre-check     *)
(* holds neither flag and none of the entries.                              *)
C6_ArgumentVectors ==
    \A i \in 1..Len(started) :
        LET tool == started[i].tool
            argv == started[i].argv
        IN /\ tool \in {Flake8Name, PylintName} =>
                /\ argv[1] = tool /\ argv[2] = project_path
                /\ IF ignore = <<>>
                   THEN Len(argv) = 2
                   ELSE /\ Len(argv) = 4
                        /\ argv[3] = (IF tool = Flake8Name THEN <<"-", "-", "e", "x", "c", "l", "u", "d", "e">>
                                      ELSE <<"-", "-", "i", "g", "n", "o", "r", "e">>)
                        /\ IsCommaJoined(argv[4])
           /\ tool = PyreCheckName =>
                /\ Len(argv) = 6
                /\ argv[1] = <<"p", "y", "r", "e">>
                /\ \A k \in 1..Len(argv) :
                      /\ argv[k] \notin {<<"-", "-", "e", "x", "c", "l", "u", "d", "e">>, <<"-", "-", "i", "g", "n", "o", "r", "e">>}
                      /\ argv[k] \notin IgnoreEntries
                      /\ ignore # <<>> => ~IsCommaJoined(argv[k])

(* flake8 was started for the ignore list ["bd", "a"]. *)
C6_Witness ==
    /\ ignore = << <<"b", "d">>, <<"a">> >>
    /\ \E i \in 1..Len(started) :
          /\ started[i].tool = Flake8Name
          /\ started[i].argv[4] = <<"b", "d", ",", "a">>
    /\ \E i \in 1..Len(started) : started[i].tool = PyreCheckName

(* C7: run_pyre's configuration file is written in full before the pyre     *)
(* child is started and is there as long as that child runs; the temporary  *)
(* directory exists only inside run_pyre, so it is gone when run_pyre has   *)
(* returned on any path (pyre ended with any status, pyre could not be      *)
(* launched, the file could not be written); no child of another tool ever  *)
(* runs, or is started, while the directory exists.                         *)
C7_TempConfigLifetime ==
    /\ \A i \in 1..Len(started) :
          IF started[i].tool = PyreCheckName
          THEN started[i].config = Some(Some(PyreConfigText(project_path, ignore)))
          ELSE started[i].config = None
    /\ \A c \in children :
          IF c.tool = PyreCheckName
          THEN temp_dir = Some(Some(PyreConfigText(project_path, ignore)))
          ELSE temp_dir = None
    /\ temp_dir # None => pc \in {"pyre_write", "pyre_launch", "pyre_wait"}
    /\ pc = "pyre_wait" => IsRunning(PyreCheckName)

(* run_pyre has returned after pyre, started on the complete file, exited   *)
(* with status 1; flake8 had run before it.                                 *)
C7_Witness ==
    /\ pc = "aggregate"
    /\ temp_dir = None
    /\ HasFinished(Flake8Name)
    /\ project_path = SrcDir /\ ignore = << <<"a">> >>
    /\ \E i \in 1..Len(finished) :
          finished[i].tool = PyreCheckName /\ finished[i].code = 1
    /\ \E i \in 1..Len(started) :
          /\ started[i].tool = PyreCheckName
          /\ started[i].config = Some(Some(<<"{", "\n", " ", " ", "\"", "i", "g", "n", "o", "r", "e", "\"", ":", " ", "[", "\"", "a", "\"", "]", ",", "\n", " ", " ", "\"", "t", "y", "p", "e", "s", "h", "e", "d", "\"", ":", " ", "n", "u", "l", "l", ",", "\n", " ", " ", "\"", "u", "s", "e", "_", "b", "u", "c", "k", "\"", ":", " ", "f", "a", "l", "s", "e", ",", "\n", " ", " ", "\"", "s", "o", "u", "r", "c", "e", "_", "d", "i", "r", "e", "c", "t", "o", "r", "i", "e", "s", "\"", ":", " ", "[", "\"", "s", "r", "c", "\"", "]", "\n", "}">>))

(* C8: a child that started and exited, with status zero or not, has its    *)
(* standard output returned unchanged and placed verbatim in its tool's     *)
(* section; a runner returns the empty string through its except clause     *)
(* only when no child was started.                                          *)
C8_ExitStatusIgnored ==
    /\ \A i \in 1..Len(finished) :
          LET f == finished[i]
          IN /\ HasResult(f.tool) /\ ResultOf(f.tool) = f.out
             /\ ~ErrorLogged(f.tool)
             /\ Reported => HasSection(f.tool, f.out)
    /\ \A t \in Tools :
          (HasResult(t) /\ ~HasFinished(t)) =>
              ResultOf(t) = <<>> /\ ErrorLogged(t) /\ ~HasStarted(t)

(* A finished run with a tool that exited with status 1 after printing a    *)
(* warning, which is the body of its section.                               *)
C8_Witness ==
    /\ pc = "done"
    /\ \E i \in 1..Len(finished) :
          /\ finished[i].code = 1
          /\ finished[i].out = <<"W", "1", "\n">>
          /\ HasSection(finished[i].tool, <<"W", "1", "\n">>)

(* C9: at most one child process runs at any time; a tool is started only   *)
(* when every selected tool before it in canonical order has ended and has  *)
(* its result recorded; the report is built and delivered only when no      *)
(* child runs and every selected tool has its result.                       *)
C9_StrictlySequential ==
    /\ Cardinality(children) <= 1
    /\ \A t \in Tools :
          (invocations[t] > 0 \/ IsRunning(t)) =>
              \A u \in Requested :
                  Rank(u) < Rank(t) => HasResult(u) /\ ~IsRunning(u)
    /\ \A i, j \in 1..Len(started) :
          i < j => Rank(started[i].tool) < Rank(started[j].tool)
    /\ \A i, j \in 1..Len(results) :
          i < j => Rank(results[i][1]) < Rank(results[j][1])
    /\ (AfterDispatch \/ output # <<>> \/ stdout # None \/ written # None) =>
          /\ children = {}
          /\ \A u \in Requested : HasResult(u)

(* pyre is running after flake8 and pylint have both ended. *)
C9_Witness ==
    /\ IsRunning(PyreCheckName)
    /\ HasFinished(Flake8Name) /\ HasFinished(PylintName)
    /\ HasResult(Flake8Name) /\ HasResult(PylintName)

(* C10: the report goes to exactly one destination: with an output file     *)
(* given nothing is ever written to standard output, whether the write      *)
(* succeeds or fails (a failure is logged and the report is delivered       *)
(* nowhere); with none given the report is written to standard output and   *)
(* no file is written.                                                      *)
C10_OneDestination ==
    /\ OutputFileGiven => stdout = None
    /\ ~OutputFileGiven => written = None /\ ~Saved /\ ~WriteErrorLogged
    /\ pc = "done" =>
          IF OutputFileGiven
          THEN \/ Saved /\ ~WriteErrorLogged /\ written = Some(output)
               \/ WriteErrorLogged /\ ~Saved /\ written # Some(output)
          ELSE stdout # None /\ Len(stdout[1]) > Len(output)

(* The output file was opened and the write failed: nothing on standard     *)
(* output, an error in the log.                                             *)
C10_Witness ==
    /\ pc = "done"
    /\ output_file = Some(OutPath)
    /\ WriteErrorLogged
    /\ written = Some(<<>>)
    /\ stdout = None

====
